---- MODULE Spec2Model ----
(***************************************************************************)
(* Lifecycle of the voltha main entry point (voltha/main.py): the steps of *)
(* Main.__init__, Main.start / start_reactor, the heartbeat LoopingCall    *)
(* and the inlineCallbacks coroutine shutdown_components that the reactor  *)
(* runs as a 'before shutdown' system event trigger.                       *)
(***************************************************************************)
EXTENDS Integers, Sequences, FiniteSets, TLC

VARIABLES
    pc,            \* position of the main thread in Main.__init__ / Main.start
    args,          \* the parsed command line (flags used by __init__)
    config,        \* self.config: result of load_config
    failed,        \* the call whose exception left __init__ ("None" if none did)
    log,           \* event names passed to self.log.info, in order
    coordinator,   \* self.coordinator
    grpc_server,   \* self.grpc_server
    startLog,      \* subsystems whose start call was invoked, in order
    shutdownLog,   \* subsystems whose shutdown() was invoked, in order
    sd,            \* per subsystem: state of the result of its last shutdown():
                   \* "none", "done" (completed in the call), "pending",
                   \* "fired" (its deferred fired later) or "failed"
    gen,           \* position of the shutdown_components coroutine
    callers,       \* who invoked shutdown_components, in order
    triggers,      \* 'before shutdown' system event triggers of the reactor
    reactor,       \* state of the twisted reactor
    lc,            \* the heartbeat LoopingCall: running flag and captured t0
    clock,         \* time.time()
    hbLog,         \* heartbeat records passed to self.log.debug, in order
    environ,       \* os.environ: the variables read by defs
    argv,          \* the command line: the value given to each option
    settings,      \* the valued options of the namespace parse_args returns
    path           \* the path load_config opens

\* the state of configuration resolution
cfgvars == <<environ, argv, settings, path>>

vars == <<pc, args, config, failed, log, coordinator, grpc_server, startLog,
          shutdownLog, sd, gen, callers, triggers, reactor, lc, clock, hbLog,
          environ, argv, settings, path>>

None == "None"

\* bounds of the model
MaxTicks == 3
MaxJitter == 1
MaxStartClock == 1
MaxDirectCalls == 1

\* lc.start(10)
HeartbeatPeriod == 10

Subsystems == {"coordinator", "rest", "grpc_server"}

\* the REST service started before the coordinator
StartOrderSwapped == <<"rest", "coordinator", "grpc_server">>

\* order in which startup_components starts the subsystems
StartOrder == <<"coordinator", "rest", "grpc_server">>

\* outcomes of a collaborator call made during __init__
CallOutcomes == {"ok", "raise"}

\* outcomes of handle.shutdown(): a plain value or an already fired deferred,
\* an exception or already failed deferred, or a deferred that has not fired
ShutdownOutcomes == {"ok", "raise", "pending"}

BannerLines == <<"banner", "banner", "banner", "banner", "banner", "banner">>

(***************************************************************************)
(* Values of configuration resolution.  A Python value is a record of its  *)
(* type and its text; Absent is None, an unset variable or an option not   *)
(* given on the command line.                                              *)
(***************************************************************************)

Absent == [kind |-> "absent", v |-> ""]
PyStr(v) == [kind |-> "str", v |-> v]
PyInt(v) == [kind |-> "int", v |-> v]

\* the environment variables defs reads
EnvNames == {"CONSUL", "INSTANCE_ID", "HOSTNAME", "CONFIG", "INTERFACE",
             "INTERNAL_HOST_ADDRESS", "EXTERNAL_HOST_ADDRESS", "FLUENTD",
             "REST_PORT"}

\* the options of parse_args that take a value and have an entry in defs
Dests == {"consul", "instance_id", "config", "interface",
          "internal_host_address", "external_host_address", "fluentd",
          "rest_port"}

\* the value a variable has when it is set
EnvValue(n) ==
    CASE n = "CONSUL" -> PyStr("consul.env:8500")
      [] n = "INSTANCE_ID" -> PyStr("id-env")
      [] n = "HOSTNAME" -> PyStr("host-env")
      [] n = "CONFIG" -> PyStr("env/voltha.yml")
      [] n = "INTERFACE" -> PyStr("eth-env")
      [] n = "INTERNAL_HOST_ADDRESS" -> PyStr("10.0.0.1")
      [] n = "EXTERNAL_HOST_ADDRESS" -> PyStr("192.0.2.1")
      [] n = "FLUENTD" -> PyStr("fluentd.env:24224")
      [] n = "REST_PORT" -> PyStr("7000")

\* the value an option other than --config is given on the command line
CliValue(d) ==
    CASE d = "consul" -> PyStr("consul.cli:8500")
      [] d = "instance_id" -> PyStr("id-cli")
      [] d = "interface" -> PyStr("eth-cli")
      [] d = "internal_host_address" -> PyStr("10.0.0.2")
      [] d = "external_host_address" -> PyStr("192.0.2.2")
      [] d = "fluentd" -> PyStr("fluentd.cli:24224")
      [] d = "rest_port" -> PyStr("6000")

\* the paths --config is given on the command line
CliConfigs == {PyStr("../etc/voltha.yml"), PyStr("conf/voltha.yml"),
               PyStr("/etc/voltha.yml")}

\* the environments and the command lines the model draws from: every
\* variable set or unset, every option given or not given
Environs ==
    {[n \in EnvNames |-> IF n \in set THEN EnvValue(n) ELSE Absent] :
        set \in SUBSET EnvNames}
Argvs ==
    {[opt |-> [d \in Dests |-> IF d = "config" THEN c
                               ELSE IF d \in given THEN CliValue(d)
                               ELSE Absent],
      instance_id_is_container_name |-> f] :
        given \in SUBSET (Dests \ {"config"}),
        c \in CliConfigs \cup {Absent},
        f \in BOOLEAN}

\* os.environ.get(name, default)
EnvGet(env, n, default) == IF env[n] = Absent THEN default ELSE env[n]

\* get_my_primary_interface(), get_my_primary_local_ipv4(),
\* get_my_containers_name()
PrimaryInterface == PyStr("eth0")
PrimaryLocalIpv4 == PyStr("172.17.0.2")
ContainersName == PyStr("container-name")

\* the module-level dict defs
defs(env) ==
    [consul |-> EnvGet(env, "CONSUL", PyStr("localhost:8500")),
     instance_id |-> EnvGet(env, "INSTANCE_ID", EnvGet(env, "HOSTNAME", PyStr("1"))),
     config |-> EnvGet(env, "CONFIG", PyStr("./voltha.yml")),
     interface |-> EnvGet(env, "INTERFACE", PrimaryInterface),
     internal_host_address |->
         EnvGet(env, "INTERNAL_HOST_ADDRESS", PrimaryLocalIpv4),
     external_host_address |->
         EnvGet(env, "EXTERNAL_HOST_ADDRESS", PrimaryLocalIpv4),
     fluentd |-> EnvGet(env, "FLUENTD", Absent),
     rest_port |-> EnvGet(env, "REST_PORT", PyInt("8880"))]

\* type=int for --rest-port, no type for the other options; argparse applies
\* the type to a command line string and to a default that is a string
Convert(d, val) ==
    IF d = "rest_port" /\ val.kind = "str" THEN PyInt(val.v) ELSE val

\* the help strings are formatted from defs before anything is parsed: '%s'
\* takes any value, '%d' (the help of --rest-port) raises TypeError for a
\* value that is no number
HelpFormats(dd) == dd.rest_port.kind = "int"

\* the namespace parser.parse_args() returns for the valued options
Namespace(dd, av) ==
    [d \in Dests |-> IF av.opt[d] = Absent THEN Convert(d, dd[d])
                                           ELSE Convert(d, av.opt[d])]

\* post-processing: if args.instance_id_is_container_name:
\*     args.instance_id = get_my_containers_name()
PostProcess(ns, av) ==
    IF av.instance_id_is_container_name
    THEN [ns EXCEPT !["instance_id"] = ContainersName]
    ELSE ns

Unparsed == [d \in Dests |-> Absent]

\* the state of the process with the configuration already resolved
Init ==
    /\ environ = [n \in EnvNames |-> Absent]
    /\ argv = [opt |-> [d \in Dests |-> Absent],
               instance_id_is_container_name |-> FALSE]
    /\ settings = PostProcess(Namespace(defs(environ), argv), argv)
    /\ path = <<>>
    /\ pc = "load_config"
    /\ args \in [no_banner : BOOLEAN, no_heartbeat : BOOLEAN]
    /\ config = None
    /\ failed = None
    /\ log = <<>>
    /\ coordinator = None
    /\ grpc_server = None
    /\ startLog = <<>>
    /\ shutdownLog = <<>>
    /\ sd = [s \in Subsystems |-> "none"]
    /\ gen = "idle"
    /\ callers = <<>>
    /\ triggers = {}
    /\ reactor = "notrun"
    /\ lc = [running |-> FALSE, armed |-> 0, t0 |-> 0]
    /\ clock \in 0..MaxStartClock
    /\ hbLog = <<>>

(***************************************************************************)
(* parse_args and the path of load_config, as a process of their own: the  *)
(* environment and the command line are drawn, parse_args resolves them    *)
(* and load_config computes the path it opens.                             *)
(***************************************************************************)

lifevars == <<args, config, log, coordinator, grpc_server, startLog,
              shutdownLog, sd, gen, callers, triggers, reactor, lc, clock,
              hbLog>>

InitConfig ==
    /\ environ \in Environs
    /\ argv \in Argvs
    /\ settings = Unparsed
    /\ path = <<>>
    /\ pc = "parse_args"
    /\ args = [no_banner |-> FALSE, no_heartbeat |-> FALSE]
    /\ config = None
    /\ failed = None
    /\ log = <<>>
    /\ coordinator = None
    /\ grpc_server = None
    /\ startLog = <<>>
    /\ shutdownLog = <<>>
    /\ sd = [s \in Subsystems |-> "none"]
    /\ gen = "idle"
    /\ callers = <<>>
    /\ triggers = {}
    /\ reactor = "notrun"
    /\ lc = [running |-> FALSE, armed |-> 0, t0 |-> 0]
    /\ clock = 0
    /\ hbLog = <<>>

\* self.args = args = parse_args(): the parser is built from defs, which
\* raises when a help string cannot be formatted; then the command line is
\* parsed and post-processed
parse_args ==
    /\ pc = "parse_args"
    /\ IF HelpFormats(defs(environ))
       THEN /\ settings' = PostProcess(Namespace(defs(environ), argv), argv)
            /\ pc' = "load_config_path"
            /\ failed' = failed
       ELSE /\ settings' = settings
            /\ pc' = "crashed"
            /\ failed' = "parse_args"
    /\ UNCHANGED <<environ, argv, path>>
    /\ UNCHANGED lifevars

\* a path as text, split at '/': absolute or not, and its components
SplitPath(v) ==
    CASE v = "./voltha.yml" -> [abs |-> FALSE, parts |-> <<".", "voltha.yml">>]
      [] v = "../etc/voltha.yml" ->
             [abs |-> FALSE, parts |-> <<"..", "etc", "voltha.yml">>]
      [] v = "conf/voltha.yml" ->
             [abs |-> FALSE, parts |-> <<"conf", "voltha.yml">>]
      [] v = "env/voltha.yml" ->
             [abs |-> FALSE, parts |-> <<"env", "voltha.yml">>]
      [] v = "/etc/voltha.yml" ->
             [abs |-> TRUE, parts |-> <<"etc", "voltha.yml">>]

\* os.path.dirname(os.path.abspath(__file__)) and the values of os.getcwd()
MainDir == <<"opt", "voltha", "voltha">>
Cwds == {MainDir, <<"home", "user">>}

\* path.startswith('.'): the first component of the paths of SplitPath
\* begins with '.' exactly when it is '.' or '..'
StartsWithDot(p) == ~p.abs /\ p.parts # <<>> /\ p.parts[1] \in {".", ".."}

\* os.path.join(dir, path)
PathJoin(dir, p) ==
    IF p.abs THEN p ELSE [abs |-> TRUE, parts |-> dir \o p.parts]

\* os.path.normpath of an absolute path: '.' is dropped, '..' drops the
\* component before it
RECURSIVE NormParts(_, _)
NormParts(done, rest) ==
    IF rest = <<>> THEN done
    ELSE IF Head(rest) = "." THEN NormParts(done, Tail(rest))
    ELSE IF Head(rest) = ".."
         THEN NormParts(IF done = <<>> THEN done
                        ELSE SubSeq(done, 1, Len(done) - 1), Tail(rest))
    ELSE NormParts(Append(done, Head(rest)), Tail(rest))

\* os.path.abspath(path): a relative path is joined to the current working
\* directory, then the path is normalised
AbsPath(p, cwd) == NormParts(<<>>, PathJoin(cwd, p).parts)

\* the path load_config opens:
\*     if path.startswith('.'): path = os.path.join(dir, path)
\*     path = os.path.abspath(path)
ConfigPath(p, cwd) ==
    AbsPath(IF StartsWithDot(p) THEN PathJoin(MainDir, p) ELSE p, cwd)

\* load_config(args) up to the open() call
load_config_path ==
    /\ pc = "load_config_path"
    /\ \E cwd \in Cwds :
         path' = ConfigPath(SplitPath(settings["config"].v), cwd)
    /\ pc' = "path_resolved"
    /\ UNCHANGED <<failed, environ, argv, settings>>
    /\ UNCHANGED lifevars

NextConfig ==
    \/ parse_args
    \/ load_config_path

\* configuration resolution for every environment and command line
SpecConfig == InitConfig /\ [][NextConfig]_vars

(***************************************************************************)
(* Main.__init__                                                           *)
(***************************************************************************)

\* a handler that falls back to an empty default configuration
ConfigFallback(cfg) ==
    [pc |-> "setup_logging", failed |-> "load_config", config |-> "mapping"]

\* an exception of load_config leaves Main.__init__, which has no handler:
\* self.config is never assigned
ConfigRaised(cfg) ==
    [pc |-> "crashed", failed |-> "load_config", config |-> cfg]

\* self.config = load_config(args): open() or yaml.load may raise; a file
\* that parses to something that is no mapping is returned as it is
load_config ==
    /\ pc = "load_config"
    /\ \E r \in {"mapping", "not_mapping", "ioerror", "yamlerror"} :
         IF r \in {"ioerror", "yamlerror"}
         THEN /\ pc' = ConfigRaised(config).pc
              /\ failed' = ConfigRaised(config).failed
              /\ config' = ConfigRaised(config).config
         ELSE /\ pc' = "setup_logging"
              /\ failed' = failed
              /\ config' = r
    /\ UNCHANGED <<args, log, coordinator, grpc_server, startLog, shutdownLog,
                   sd, gen, callers, triggers, reactor, lc, clock, hbLog>>
    /\ UNCHANGED cfgvars

\* self.log = setup_logging(self.config.get('logging', {}), ...), then the
\* two component attributes are set to None
setup_logging ==
    /\ pc = "setup_logging"
    /\ IF config = "mapping"
       THEN /\ pc' = "print_banner"
            /\ failed' = failed
       ELSE /\ pc' = "crashed"
            /\ failed' = "setup_logging"
    /\ coordinator' = None
    /\ grpc_server' = None
    /\ UNCHANGED <<args, config, log, startLog, shutdownLog, sd, gen, callers,
                   triggers, reactor, lc, clock, hbLog>>
    /\ UNCHANGED cfgvars

\* if not args.no_banner: print_banner(self.log)
print_banner ==
    /\ pc = "print_banner"
    /\ log' = IF args.no_banner THEN log ELSE log \o BannerLines
    /\ pc' = "start_heartbeat"
    /\ UNCHANGED <<args, config, failed, coordinator, grpc_server, startLog,
                   shutdownLog, sd, gen, callers, triggers, reactor, lc, clock,
                   hbLog>>
    /\ UNCHANGED cfgvars

\* t0s = time.ctime(t0): the label of an instant
ctime(t) == <<"ctime", t>>

\* the uptime taken as the clock itself, not as the time since t0
HeartbeatRecordNoOrigin(t0, now) ==
    [status |-> "up", since |-> ctime(t0), uptime |-> now]

\* the record heartbeat() passes to self.log.debug
HeartbeatRecord(t0, now) ==
    [status |-> "up", since |-> ctime(t0), uptime |-> now - t0]

\* the heartbeat armed whatever the flag says
HeartbeatAlways(a) == TRUE

\* if not args.no_heartbeat
HeartbeatEnabled(a) == ~a.no_heartbeat

\* one call of heartbeat() by the LoopingCall: an exception raised by the
\* call stops the LoopingCall
LoopingCallFire(l, o) == [l EXCEPT !.running = (o = "ok")]

\* if not args.no_heartbeat: self.start_heartbeat().  lc.start(10) calls
\* heartbeat() at once and then every 10 seconds while the reactor runs
start_heartbeat ==
    /\ pc = "start_heartbeat"
    /\ pc' = "startup_coordinator"
    /\ IF HeartbeatEnabled(args)
       THEN \E o \in CallOutcomes :
              /\ lc' = LoopingCallFire(
                          [running |-> TRUE, armed |-> lc.armed + 1,
                           t0 |-> clock], o)
              /\ hbLog' = IF o = "ok"
                          THEN Append(hbLog, HeartbeatRecord(clock, clock))
                          ELSE hbLog
       ELSE UNCHANGED <<lc, hbLog>>
    /\ UNCHANGED <<args, config, failed, log, coordinator, grpc_server,
                   startLog, shutdownLog, sd, gen, callers, triggers, reactor,
                   clock>>
    /\ UNCHANGED cfgvars

(***************************************************************************)
(* Main.startup_components, called once at the end of Main.__init__        *)
(***************************************************************************)

\* the exception caught and logged, Main.__init__ returning normally
StartupSwallowed(name) == [pc |-> "start", failed |-> name]

\* an exception leaves startup_components and Main.__init__: Main() has no
\* handler, so Main().start() is never reached
StartupRaised(name) == [pc |-> "crashed", failed |-> name]

\* self.log.info('starting-internal-components');
\* self.coordinator = Coordinator(...)
startup_coordinator ==
    /\ pc = "startup_coordinator"
    /\ log' = Append(log, "starting-internal-components")
    /\ startLog' = Append(startLog, StartOrder[1])
    /\ \E o \in CallOutcomes :
         IF o = "ok"
         THEN /\ coordinator' = "coordinator"
              /\ pc' = "startup_rest"
              /\ failed' = failed
         ELSE /\ coordinator' = coordinator
              /\ pc' = StartupRaised("coordinator").pc
              /\ failed' = StartupRaised("coordinator").failed
    /\ UNCHANGED <<args, config, grpc_server, shutdownLog, sd, gen, callers,
                   triggers, reactor, lc, clock, hbLog>>
    /\ UNCHANGED cfgvars

\* init_rest_service(self.args.rest_port): the result is not kept
startup_rest ==
    /\ pc = "startup_rest"
    /\ startLog' = Append(startLog, StartOrder[2])
    /\ \E o \in CallOutcomes :
         IF o = "ok"
         THEN /\ pc' = "startup_grpc"
              /\ failed' = failed
         ELSE /\ pc' = StartupRaised("rest").pc
              /\ failed' = StartupRaised("rest").failed
    /\ UNCHANGED <<args, config, log, coordinator, grpc_server, shutdownLog, sd,
                   gen, callers, triggers, reactor, lc, clock, hbLog>>
    /\ UNCHANGED cfgvars

\* self.grpc_server = VolthaGrpcServer().run(): whatever run() returns is
\* kept as the handle; self.log.info('started-internal-services')
startup_grpc ==
    /\ pc = "startup_grpc"
    /\ startLog' = Append(startLog, StartOrder[3])
    /\ \E o \in {"ok", "returns_none", "raise"} :
         IF o = "raise"
         THEN /\ grpc_server' = grpc_server
              /\ log' = log
              /\ pc' = StartupRaised("grpc_server").pc
              /\ failed' = StartupRaised("grpc_server").failed
         ELSE /\ grpc_server' = IF o = "ok" THEN "grpc_server" ELSE None
              /\ log' = Append(log, "started-internal-services")
              /\ pc' = "start"
              /\ failed' = failed
    /\ UNCHANGED <<args, config, coordinator, shutdownLog, sd, gen, callers,
                   triggers, reactor, lc, clock, hbLog>>
    /\ UNCHANGED cfgvars

(***************************************************************************)
(* Main.shutdown_components: an inlineCallbacks coroutine.  Its state is   *)
(* the record [gen, sd, shutdownLog]; the handles self.coordinator and     *)
(* self.grpc_server are only read.                                         *)
(***************************************************************************)

GenFinished == {"returned", "raised"}

\* the log entry left out
BeginLogMissing(l) == l

\* self.log.info('exiting-on-keyboard-interrupt'), the first statement
BeginLog(l) == Append(l, "exiting-on-keyboard-interrupt")

\* shutdown() called on whatever the attribute holds
HandleAlways(h) == TRUE

\* if self.<handle> is not None
HandlePresent(h) == h # None

\* what handle.shutdown() leaves behind for the outcome o
ShutdownResult(o) ==
    CASE o = "ok" -> "done"
      [] o = "pending" -> "pending"
      [] o = "raise" -> "failed"

\* the call made without `yield`: the coroutine never waits for the deferred
YieldNoWait(o) == IF o = "raise" THEN "throw" ELSE "continue"

\* `yield d` under inlineCallbacks: a plain value or fired deferred resumes
\* the coroutine at once, an unfired deferred suspends it until it fires and
\* a failure is thrown into the coroutine, which has no handler
YieldStep(o) ==
    CASE o = "ok" -> "continue"
      [] o = "pending" -> "suspend"
      [] o = "raise" -> "throw"

\* if self.grpc_server is not None: yield self.grpc_server.shutdown()
grpc_step(st, og) ==
    IF ~HandlePresent(grpc_server)
    THEN [st EXCEPT !.gen = "returned"]
    ELSE [gen |-> CASE YieldStep(og) = "continue" -> "returned"
                    [] YieldStep(og) = "suspend" -> "await_grpc_server"
                    [] YieldStep(og) = "throw" -> "raised",
          sd |-> [st.sd EXCEPT !["grpc_server"] = ShutdownResult(og)],
          shutdownLog |-> Append(st.shutdownLog, "grpc_server")]

\* if self.coordinator is not None: yield self.coordinator.shutdown(),
\* followed by the rest of the coroutine when the yield resumes at once
coordinator_step(st, oc, og) ==
    IF ~HandlePresent(coordinator)
    THEN grpc_step(st, og)
    ELSE LET inv == [st EXCEPT !.sd["coordinator"] = ShutdownResult(oc),
                               !.shutdownLog = Append(@, "coordinator")]
         IN CASE YieldStep(oc) = "continue" -> grpc_step(inv, og)
              [] YieldStep(oc) = "suspend" ->
                     [inv EXCEPT !.gen = "await_coordinator"]
              [] YieldStep(oc) = "throw" -> [inv EXCEPT !.gen = "raised"]

\* the coroutine from its first line up to its first suspension or its end
shutdown_components(st, oc, og) == coordinator_step(st, oc, og)

\* the deferred of subsystem s fires with r: the coroutine waiting for it
\* resumes after its yield (callback) or gets the failure thrown in (errback)
resume(st, s, r, og) ==
    LET fired == [st EXCEPT !.sd[s] = IF r = "callback" THEN "fired"
                                                        ELSE "failed"]
    IN CASE st.gen = "await_coordinator" /\ s = "coordinator" ->
                IF r = "callback" THEN grpc_step(fired, og)
                                  ELSE [fired EXCEPT !.gen = "raised"]
         [] st.gen = "await_grpc_server" /\ s = "grpc_server" ->
                [fired EXCEPT !.gen = IF r = "callback" THEN "returned"
                                                        ELSE "raised"]
         [] OTHER -> fired

(***************************************************************************)
(* Main.start / Main.start_reactor and the reactor                          *)
(***************************************************************************)

\* no trigger registered
NoTriggers == {}

\* reactor.addSystemEventTrigger('before', 'shutdown', self.shutdown_components)
RegisteredTriggers == {"shutdown_components"}

\* a trigger that drops the deferred of the coroutine
BeforePhaseOverNoWait(g) == TRUE

\* the trigger is the coroutine function itself, so the reactor receives its
\* deferred and ends the 'before' phase only when that deferred has fired
BeforePhaseOver(g) == g \in GenFinished

\* Main().start(): callWhenRunning, addSystemEventTrigger, reactor.run()
start_reactor ==
    /\ pc = "start"
    /\ triggers' = triggers \cup RegisteredTriggers
    /\ reactor' = "running"
    /\ log' = Append(log, "twisted-reactor-started")
    /\ pc' = "reactor_run"
    /\ UNCHANGED <<args, config, failed, coordinator, grpc_server, startLog,
                   shutdownLog, sd, gen, callers, lc, clock, hbLog>>
    /\ UNCHANGED cfgvars

\* the LoopingCall calls heartbeat() while the reactor runs
heartbeat ==
    /\ reactor \in {"running", "stopping"}
    /\ lc.running
    /\ Len(hbLog) < MaxTicks
    /\ \E j \in 0..MaxJitter, o \in CallOutcomes :
         /\ clock' = clock + HeartbeatPeriod + j
         /\ lc' = LoopingCallFire(lc, o)
         /\ hbLog' = IF o = "ok"
                     THEN Append(hbLog, HeartbeatRecord(lc.t0, clock'))
                     ELSE hbLog
    /\ UNCHANGED <<pc, args, config, failed, log, coordinator, grpc_server,
                   startLog, shutdownLog, sd, gen, callers, triggers, reactor>>
    /\ UNCHANGED cfgvars

\* the reactor leaves the 'before shutdown' phase, runs to its end and
\* reactor.run() returns to Main.start
ReactorAfter(g) == IF BeforePhaseOver(g) THEN "stopped" ELSE "stopping"

\* the interrupt (reactor.stop()): the reactor fires its 'before shutdown'
\* triggers once; shutdown_components logs and runs up to its first wait.
\* A further interrupt while the reactor is stopping changes nothing
\* (reactor.stop() on a stopping reactor only raises ReactorNotRunning).
stop_signal ==
    /\ reactor = "running"
    /\ IF "shutdown_components" \in triggers
       THEN \E oc \in ShutdownOutcomes, og \in ShutdownOutcomes :
              LET st == shutdown_components(
                            [gen |-> gen, sd |-> sd,
                             shutdownLog |-> shutdownLog], oc, og)
              IN /\ callers' = Append(callers, "trigger")
                 /\ log' = BeginLog(log)
                 /\ gen' = st.gen
                 /\ sd' = st.sd
                 /\ shutdownLog' = st.shutdownLog
                 /\ reactor' = ReactorAfter(st.gen)
       ELSE /\ reactor' = "stopped"
            /\ UNCHANGED <<callers, log, gen, sd, shutdownLog>>
    /\ pc' = IF reactor' = "stopped" THEN "done" ELSE pc
    /\ UNCHANGED <<args, config, failed, coordinator, grpc_server, startLog,
                   triggers, lc, clock, hbLog>>
    /\ UNCHANGED cfgvars

\* a pending shutdown deferred fires; a coroutine that finishes while the
\* reactor is in its 'before shutdown' phase lets the reactor stop
deferred_fires ==
    \E s \in Subsystems :
      /\ sd[s] = "pending"
      /\ \E r \in {"callback", "errback"}, og \in ShutdownOutcomes :
           LET st == resume([gen |-> gen, sd |-> sd,
                             shutdownLog |-> shutdownLog], s, r, og)
           IN /\ gen' = st.gen
              /\ sd' = st.sd
              /\ shutdownLog' = st.shutdownLog
              /\ reactor' = IF reactor = "stopping"
                            THEN ReactorAfter(st.gen) ELSE reactor
      /\ pc' = IF reactor = "stopping" /\ reactor' = "stopped"
               THEN "done" ELSE pc
      /\ UNCHANGED <<args, config, failed, log, coordinator, grpc_server,
                     startLog, callers, triggers, lc, clock, hbLog>>
      /\ UNCHANGED cfgvars

\* a caller of the Main object invokes shutdown_components() once more
\* after reactor.run() has returned
direct_shutdown ==
    /\ pc = "done"
    /\ gen \in GenFinished
    /\ Cardinality({i \in DOMAIN callers : callers[i] = "direct"})
          < MaxDirectCalls
    /\ \E oc \in ShutdownOutcomes, og \in ShutdownOutcomes :
         LET st == shutdown_components(
                       [gen |-> gen, sd |-> sd, shutdownLog |-> shutdownLog],
                       oc, og)
         IN /\ callers' = Append(callers, "direct")
            /\ log' = BeginLog(log)
            /\ gen' = st.gen
            /\ sd' = st.sd
            /\ shutdownLog' = st.shutdownLog
    /\ UNCHANGED <<pc, args, config, failed, coordinator, grpc_server,
                   startLog, triggers, reactor, lc, clock, hbLog>>
    /\ UNCHANGED cfgvars

Next ==
    \/ load_config
    \/ setup_logging
    \/ print_banner
    \/ start_heartbeat
    \/ startup_coordinator
    \/ startup_rest
    \/ startup_grpc
    \/ start_reactor
    \/ heartbeat
    \/ stop_signal
    \/ deferred_fires

\* the process started as `python main.py`
Spec == Init /\ [][Next]_vars

NextApi == Next \/ direct_shutdown

\* the Main object driven by a caller that also calls its methods itself
SpecApi == Init /\ [][NextApi]_vars

(***************************************************************************)
(* Properties                                                              *)
(***************************************************************************)

Count(seq, x) == Cardinality({i \in DOMAIN seq : seq[i] = x})

IsPrefix(p, q) == Len(p) <= Len(q) /\ \A i \in DOMAIN p : p[i] = q[i]

\* position of subsystem x in the order the subsystems were started in
StartPos(x) == CHOOSE i \in DOMAIN startLog : startLog[i] = x

StartupSucceeded == pc \in {"start", "reactor_run", "done"}

Completed == {"done", "fired"}

\* C1: shutdown() is invoked on the started subsystems in the reverse of the
\* order they were started in: of two subsystems shut down, the one started
\* later is shut down first.
C1_ReverseOrderShutdown ==
    \A i, j \in DOMAIN shutdownLog :
        i < j => StartPos(shutdownLog[j]) < StartPos(shutdownLog[i])

\* C2: once the reactor has stopped after a successful startup, every
\* started subsystem (coordinator, REST service, gRPC server) has had its
\* shutdown() invoked exactly once.
C2_EveryStartedShutDownOnce ==
    (reactor = "stopped" /\ StartupSucceeded) =>
        \A i \in DOMAIN startLog : Count(shutdownLog, startLog[i]) = 1

\* C3: subsystem shutdowns are strictly sequential: at most one shutdown is
\* in progress at any time, and the gRPC server's shutdown() is invoked only
\* after the coordinator's shutdown(), invoked before it, has completed.
C3_SequentialShutdown ==
    /\ Cardinality({s \in Subsystems : sd[s] = "pending"}) <= 1
    /\ (Count(shutdownLog, "coordinator") > 0
            /\ Count(shutdownLog, "grpc_server") > 0)
          => sd["coordinator"] \in Completed

\* C3 witness: the coordinator's deferred fired after a wait and only then the
\* gRPC server's shutdown() was invoked, which is now in progress.
C3_Witness ==
    /\ sd["coordinator"] = "fired"
    /\ sd["grpc_server"] = "pending"
    /\ shutdownLog = <<"coordinator", "grpc_server">>
    /\ reactor = "stopping"

\* C4: the reactor is stopped only after the shutdown_components run started
\* by the 'before shutdown' trigger has finished, with no invoked shutdown()
\* still in progress.
C4_LoopHaltsAfterShutdown ==
    reactor = "stopped" =>
        /\ callers = <<"trigger">>
        /\ gen \in GenFinished
        /\ \A s \in Subsystems : sd[s] # "pending"
        /\ \A i \in DOMAIN shutdownLog : sd[shutdownLog[i]] # "none"

\* C4 witness: the reactor stopped after both shutdown deferreds were waited
\* for and fired.
C4_Witness ==
    /\ reactor = "stopped"
    /\ sd["coordinator"] = "fired"
    /\ sd["grpc_server"] = "fired"
    /\ gen = "returned"

\* C5: a second invocation of shutdown_components after a completed one
\* invokes no subsystem's shutdown() again: no subsystem is shut down twice.
C5_SecondShutdownIsNoOp ==
    \A s \in Subsystems : Count(shutdownLog, s) <= 1

\* C6: a failed shutdown() is absorbed: when the coordinator's shutdown()
\* has failed and the shutdown sequence is over, shutdown() has still been
\* invoked on the gRPC server handle.
C6_ShutdownFailureAbsorbed ==
    (reactor = "stopped" /\ sd["coordinator"] = "failed"
        /\ grpc_server # None)
      => Count(shutdownLog, "grpc_server") > 0

\* C7: the subsystems are started at most once each, in the order
\* coordinator, REST service, gRPC server, and all three have been started
\* whenever the reactor has been entered.
C7_StartOnceInOrderBeforeLoop ==
    /\ IsPrefix(startLog, <<"coordinator", "rest", "grpc_server">>)
    /\ reactor # "notrun" => startLog = <<"coordinator", "rest", "grpc_server">>

\* C7 witness: the reactor has run, heartbeats have fired and the reactor has
\* stopped, with each subsystem started once.
C7_Witness ==
    /\ reactor = "stopped"
    /\ Len(hbLog) >= 2
    /\ startLog = <<"coordinator", "rest", "grpc_server">>

\* C8: when the start of a subsystem has failed, the process has crashed out
\* of Main.__init__, the failed subsystem is the last one started, no
\* shutdown() was invoked, no trigger is registered and the reactor was
\* never entered.
C8_StartFailureIsFatal ==
    failed \in Subsystems =>
        /\ pc = "crashed"
        /\ startLog # <<>> /\ startLog[Len(startLog)] = failed
        /\ IsPrefix(startLog, <<"coordinator", "rest", "grpc_server">>)
        /\ shutdownLog = <<>>
        /\ callers = <<>>
        /\ \A s \in Subsystems : sd[s] = "none"
        /\ triggers = {}
        /\ reactor = "notrun"

\* C8 witness: the REST service failed to start after the coordinator had
\* been started.
C8_Witness ==
    /\ failed = "rest"
    /\ coordinator # None
    /\ startLog = <<"coordinator", "rest">>

\* C9: shutdown_components is invoked by the reactor's 'before shutdown'
\* trigger only and at most once: never before the reactor leaves the running
\* state, and exactly once when it has.
C9_ShutdownOnlyByHook ==
    /\ Len(callers) <= 1
    /\ \A i \in DOMAIN callers : callers[i] = "trigger"
    /\ reactor \in {"notrun", "running"} => (callers = <<>> /\ shutdownLog = <<>>)
    /\ reactor \in {"stopping", "stopped"} => callers = <<"trigger">>
    /\ Count(log, "exiting-on-keyboard-interrupt") = Len(callers)

\* C9 witness: heartbeats fired while the reactor was running and no
\* shutdown had been invoked; and the hook has run once at the end.
C9_Witness ==
    /\ reactor = "stopped"
    /\ callers = <<"trigger">>
    /\ Len(hbLog) = MaxTicks

\* C10: when load_config has failed, the process has crashed with no
\* configuration, no subsystem constructed or started, no heartbeat armed or
\* emitted and the reactor never entered.
C10_ConfigFailureIsFatal ==
    failed = "load_config" =>
        /\ pc = "crashed"
        /\ config = None
        /\ startLog = <<>>
        /\ coordinator = None /\ grpc_server = None
        /\ lc.armed = 0 /\ ~lc.running /\ hbLog = <<>>
        /\ triggers = {}
        /\ reactor = "notrun"

\* C10 witness: load_config raised.
C10_Witness ==
    /\ failed = "load_config"
    /\ pc = "crashed"

\* the environment variable of a setting, its value when no variable and no
\* option gives one, and whether a source gives the setting a value
EnvOf(d) ==
    CASE d = "consul" -> "CONSUL"
      [] d = "instance_id" -> "INSTANCE_ID"
      [] d = "config" -> "CONFIG"
      [] d = "interface" -> "INTERFACE"
      [] d = "internal_host_address" -> "INTERNAL_HOST_ADDRESS"
      [] d = "external_host_address" -> "EXTERNAL_HOST_ADDRESS"
      [] d = "fluentd" -> "FLUENTD"
      [] d = "rest_port" -> "REST_PORT"

BuiltinDefault(d) == defs([n \in EnvNames |-> IF n = "HOSTNAME" THEN environ[n]
                                              ELSE Absent])[d]

\* the value the precedence chain default < environment < command line
\* gives setting d, the container name overriding every instance id
Expected(d) ==
    IF d = "instance_id" /\ argv.instance_id_is_container_name
    THEN ContainersName
    ELSE IF argv.opt[d] # Absent THEN argv.opt[d]
    ELSE IF environ[EnvOf(d)] # Absent THEN environ[EnvOf(d)]
    ELSE BuiltinDefault(d)

\* C11: for every environment and command line, once parse_args has run the
\* value of every setting is the command line value if the option was given,
\* else the value of its environment variable if set, else the built-in
\* default (for the instance id: HOSTNAME or '1'), and the instance id is the
\* container name when --instance-id-is-container-name is given.  Values
\* are compared as text.
C11_Precedence ==
    pc # "parse_args" =>
        \A d \in Dests :
            /\ settings[d].v = Expected(d).v
            /\ (settings[d] = Absent) = (Expected(d) = Absent)

\* C12: with REST_PORT=7000 and --rest-port 6000 parse_args succeeds with
\* rest_port 6000; with REST_PORT=7000 and no option it succeeds with 7000;
\* with neither it succeeds with 8880; nothing after parse_args changes it.
C12_RestPortScenarios ==
    pc # "parse_args" =>
        /\ failed = None
        /\ settings["rest_port"] =
              IF argv.opt["rest_port"] # Absent THEN PyInt("6000")
              ELSE IF environ["REST_PORT"] # Absent THEN PyInt("7000")
              ELSE PyInt("8880")

\* C20: the path load_config opens is the given path when it is absolute,
\* and the given path joined to the directory of main.py when it is
\* relative, whether or not it begins with '.'.
C20_RelativeToMainPy ==
    pc = "path_resolved" =>
        LET p == SplitPath(settings["config"].v)
        IN path = NormParts(<<>>, PathJoin(MainDir, p).parts)

\* C13: a failed heartbeat call never stops the timer: a LoopingCall that
\* has been armed is still running, whatever its calls did.
C13_HeartbeatFailureKeepsTimer ==
    lc.armed > 0 => lc.running

\* the events the program logs when nothing fails
OrdinaryEvents == {"banner", "starting-internal-components",
                   "started-internal-services", "twisted-reactor-started",
                   "exiting-on-keyboard-interrupt"}

\* C14: when a configuration load or a subsystem start has failed, the log
\* holds exactly one entry other than the ordinary progress events: the line
\* that reports the failure.
C14_FatalErrorLogged ==
    failed # None =>
        Cardinality({i \in DOMAIN log : log[i] \notin OrdinaryEvents}) = 1

\* C15: the heartbeat is armed and emits records only after every subsystem
\* has been started: an armed timer or an emitted record implies a completed
\* startup_components.
C15_HeartbeatAfterStartup ==
    (lc.armed > 0 \/ hbLog # <<>>) =>
        (StartupSucceeded /\ startLog = <<"coordinator", "rest", "grpc_server">>)

\* C16: with the no-heartbeat flag set no timer is ever armed and no record
\* emitted; without it the timer is armed exactly once, in start_heartbeat,
\* and only a heartbeat call itself changes it afterwards: no step of
\* startup, loop entry or shutdown arms a second timer or stops the first;
\* the flag never changes.
C16_HeartbeatFixedAtStartup ==
    /\ [](args.no_heartbeat =>
            (lc.armed = 0 /\ ~lc.running /\ hbLog = <<>>))
    /\ [](~args.no_heartbeat =>
            (lc.armed <= 1 /\ (startLog # <<>> => lc.armed = 1)))
    /\ [][lc'.armed # lc.armed => pc = "start_heartbeat"]_vars
    /\ [][lc' # lc => (pc = "start_heartbeat" \/ clock' # clock)]_vars
    /\ [][args' = args]_vars

\* C16 witness: the timer armed once is still running after startup, loop
\* entry, heartbeats and a completed shutdown.
C16_Witness ==
    /\ ~args.no_heartbeat
    /\ lc.armed = 1 /\ lc.running
    /\ reactor = "stopped"
    /\ shutdownLog = <<"coordinator", "grpc_server">>
    /\ Len(hbLog) >= 2

\* C17: every heartbeat record has status 'up', the label of the start
\* instant captured at arm time and a non-negative uptime; the first record,
\* emitted at arm time, has uptime 0; the newest record of a running timer
\* has uptime clock - t0; the uptimes never decrease.
C17_HeartbeatRecords ==
    /\ \A i \in DOMAIN hbLog :
          /\ hbLog[i].status = "up"
          /\ hbLog[i].since = ctime(lc.t0)
          /\ hbLog[i].uptime >= 0
    /\ \A i, j \in DOMAIN hbLog : i < j => hbLog[i].uptime <= hbLog[j].uptime
    /\ hbLog # <<>> => hbLog[1].uptime = 0
    /\ (lc.running /\ hbLog # <<>>) => hbLog[Len(hbLog)].uptime = clock - lc.t0

\* C17 witness: three records of a timer armed at instant 1, the uptime
\* growing from tick to tick.
C17_Witness ==
    /\ Len(hbLog) = 3
    /\ lc.t0 = 1
    /\ hbLog[2].uptime > hbLog[1].uptime
    /\ hbLog[3].uptime > hbLog[2].uptime

\* C18: every run of shutdown_components has logged its one entry marking
\* the beginning of shutdown: there are as many such entries as runs, and no
\* more shutdown() calls than the runs that have logged their entry can have
\* made (two each).
C18_ShutdownLoggedFirst ==
    /\ Count(log, "exiting-on-keyboard-interrupt") = Len(callers)
    /\ Len(shutdownLog) <= 2 * Count(log, "exiting-on-keyboard-interrupt")
    /\ shutdownLog # <<>> => Count(log, "exiting-on-keyboard-interrupt") >= 1

\* C18 witness: two runs, two entries, each run with its shutdown() calls.
C18_Witness ==
    /\ callers = <<"trigger", "direct">>
    /\ Count(log, "exiting-on-keyboard-interrupt") = 2
    /\ Len(shutdownLog) = 4

\* the attribute of Main that holds the handle of a subsystem; the REST
\* service has none
Handle(s) ==
    CASE s = "coordinator" -> coordinator
      [] s = "grpc_server" -> grpc_server
      [] OTHER -> None

\* C19: shutdown() is never invoked on a handle that is None, and a run of
\* shutdown_components that skipped the None gRPC handle still shut the
\* coordinator down and returned normally once that shutdown completed.
C19_NoneHandleSkipped ==
    /\ \A i \in DOMAIN shutdownLog : Handle(shutdownLog[i]) # None
    /\ (grpc_server = None /\ callers # <<>>) =>
          /\ Count(shutdownLog, "coordinator") = Len(callers)
          /\ sd["coordinator"] \in Completed => gen = "returned"

\* C19 witness: run() returned None, the reactor has stopped, the coordinator
\* was shut down and the gRPC handle skipped.
C19_Witness ==
    /\ grpc_server = None
    /\ startLog = <<"coordinator", "rest", "grpc_server">>
    /\ reactor = "stopped"
    /\ shutdownLog = <<"coordinator">>
    /\ gen = "returned"

====
